---- MODULE Spec2Model ----
(***************************************************************************)
(* Model of the cellcytex_dashboard data pipeline (src/parser.py,          *)
(* src/metadata_parser.py): CytenaProcessor.process over one staging       *)
(* directory, and of the upload handler around it (src/app.py):            *)
(* upload_files, get_plot_data and clear_session over the cached tables    *)
(* and the session directories.                                            *)
(*                                                                         *)
(* Conventions.                                                            *)
(*  - A string the code takes apart is a sequence of lexemes: the file     *)
(*    name "scan42_summary_wells_BF_confluency.csv" is the tokens          *)
(*    <<"scan42","summary","wells","BF","confluency">> (joined by "_")     *)
(*    with extension ".csv"; the cell "Well A1 - Position 1" is            *)
(*    <<"Well ","A","1"," - Position 1">>.  Concatenation is \o.           *)
(*  - A value that can be missing (NaN) is a set: {} is missing, {v} is v. *)
(*  - A DataFrame is [cols |-> sequence of names, rows |-> sequence of     *)
(*    rows, each a sequence of cells aligned with cols].                   *)
(*  - An exception is a value [ok |-> FALSE, err |-> <exception class>].   *)
(***************************************************************************)
EXTENDS Integers, Sequences, FiniteSets, Bags, TLC

VARIABLES staging, runs, processed_data, session_dirs, issued, last, uploads, plots,
          clears, exit

vars == <<staging, runs, processed_data, session_dirs, issued, last, uploads, plots,
          clears, exit>>

(***************************************************************************)
(* Bounds of the model.                                                    *)
(***************************************************************************)
\* largest number of files a staging directory holds
MaxFiles == 3
\* number of process runs recorded on one directory
MaxRuns == 2
\* number of uploads the handler serves
MaxSessions == 1
\* number of get_plot_data calls between their test and their read of the dict
MaxPlots == 1
\* number of clear_session calls between their del and their rmtree
MaxClears == 2

(***************************************************************************)
(* Generic helpers.                                                        *)
(***************************************************************************)
Range(s) == {s[i] : i \in DOMAIN s}

RECURSIVE Flatten(_)
\* concatenation of a sequence of sequences
Flatten(ss) == IF ss = <<>> THEN <<>> ELSE Head(ss) \o Flatten(Tail(ss))

\* s without its i-th element
RemoveAt(s, i) == [j \in 1..(Len(s) - 1) |-> IF j < i THEN s[j] ELSE s[j + 1]]

\* all orderings of a finite set, as sequences
Perms(S) ==
    {p \in [1..Cardinality(S) -> S] : \A i, j \in DOMAIN p : i # j => p[i] # p[j]}

\* decimal rendering of the numbers the model uses: str(n) = DecimalStr[n + 1]
DecimalStr == <<"0", "1", "2", "3", "4", "5", "6", "7", "8", "9", "10", "11", "12">>

\* string.ascii_uppercase
ascii_uppercase ==
    <<"A", "B", "C", "D", "E", "F", "G", "H", "I", "J", "K", "L", "M",
      "N", "O", "P", "Q", "R", "S", "T", "U", "V", "W", "X", "Y", "Z">>

NaN == {}

Ok(v) == [ok |-> TRUE, err |-> "", val |-> v]

Raise(e) == [ok |-> FALSE, err |-> e, val |-> <<>>]

(***************************************************************************)
(* File names.                                                             *)
(***************************************************************************)
\* file.endswith(ext)
EndsWith(file, ext) == file.ext = ext

\* file.split('_')[0]: the text before the first "_"; the whole name, with
\* its extension, when the name holds no "_"
SplitFirst(file) ==
    IF Len(file.toks) > 1 THEN <<file.toks[1]>> ELSE <<file.toks[1], file.ext>>

\* positions i where tokens i, i+1 spell "summary_<kind>"
MarkerAt(file, kind) ==
    {i \in 1..(Len(file.toks) - 1) :
        file.toks[i] = "summary" /\ file.toks[i + 1] = kind}

\* 'summary_<kind>' in file
HasMarker(file, kind) == MarkerAt(file, kind) # {}

\* file.split('summary_<kind>_')[1].replace('.csv',''): the tokens after the
\* first marker; IndexError when the marker is not followed by "_"
LabelOf(file, kind) ==
    LET i == CHOOSE k \in MarkerAt(file, kind) : \A l \in MarkerAt(file, kind) : k <= l
    IN  IF i + 2 > Len(file.toks)
        THEN Raise("IndexError")
        ELSE Ok(SubSeq(file.toks, i + 2, Len(file.toks)))

(***************************************************************************)
(* Vocabularies of process.                                                *)
(***************************************************************************)
\* keys of possible_channels, in insertion order
possible_channels == <<"BF", "green", "EC">>

\* keys of possible_attributes, each as its "_"-separated tokens
possible_attributes ==
    { <<"total", "intensity">>, <<"average", "mean", "intensity">>,
      <<"relative", "spheroid", "area">>, <<"total", "spheroid", "area">>,
      <<"relative", "fluorescence", "area">>, <<"confluency">>,
      <<"total", "area">>, <<"object", "count">>,
      <<"object", "count", "per", "fov">> }

supported_file_extensions == <<".csv", ".xlsx", ".json">>

(***************************************************************************)
(* Directory validation and scan id.                                       *)
(***************************************************************************)
\* a validation that looks for instrument exports only
_validate_directory_csv_only(dir) ==
    IF ~dir.exists
    THEN Raise("FileNotFoundError")
    ELSE IF {f \in dir.files : EndsWith(f, ".csv")} = {}
    THEN Raise("ValueError: No supported files found")
    ELSE Ok(dir)

\* a directory is [exists |-> BOOLEAN, files |-> set of files]
_validate_directory(dir) ==
    IF ~dir.exists
    THEN Raise("FileNotFoundError")
    ELSE LET found_files ==
                 {f \in dir.files :
                     \E i \in DOMAIN supported_file_extensions :
                         EndsWith(f, supported_file_extensions[i])}
         IN  IF found_files = {}
             THEN Raise("ValueError: No supported files found")
             ELSE Ok(dir)

\* a scan id taken from the first .csv of the listing, whatever the others say
_extract_scan_id_first(listing) ==
    LET csv == SelectSeq(listing, LAMBDA f : EndsWith(f, ".csv"))
    IN  IF csv = <<>> THEN {} ELSE {SplitFirst(csv[1])}

\* the scan id, or None ({}) when the .csv prefixes are not exactly one
_extract_scan_id(listing) ==
    LET prefixes == {SplitFirst(listing[i]) :
                        i \in {k \in DOMAIN listing : EndsWith(listing[k], ".csv")}}
    IN  IF Cardinality(prefixes) = 1
        THEN {CHOOSE p \in prefixes : TRUE}
        ELSE {}

(***************************************************************************)
(* DataFrame helpers.                                                      *)
(***************************************************************************)
\* df.drop(columns=[df.columns[i]])
DropColumn(df, i) ==
    [cols |-> RemoveAt(df.cols, i),
     rows |-> [r \in DOMAIN df.rows |-> RemoveAt(df.rows[r], i)]]

RECURSIVE DropNamed(_, _)
\* df.drop(columns=[name]): every column of that name goes
DropNamed(df, name) ==
    IF \E i \in DOMAIN df.cols : df.cols[i] = name
    THEN DropNamed(DropColumn(df, CHOOSE i \in DOMAIN df.cols : df.cols[i] = name), name)
    ELSE df

\* df.columns = [df.columns[0]] + df.iloc[0,1:].tolist(); df = df.iloc[2:,:]
PromoteHeader(df) ==
    [cols |-> [j \in DOMAIN df.cols |-> IF j = 1 THEN df.cols[1] ELSE df.rows[1][j]],
     rows |-> SubSeq(df.rows, 3, Len(df.rows))]

\* a Python dict as a sequence of [key, val] in insertion order: d[k] = v
DictSet(d, k, v) ==
    IF \E i \in DOMAIN d : d[i].key = k
    THEN [i \in DOMAIN d |-> IF d[i].key = k THEN [key |-> k, val |-> v] ELSE d[i]]
    ELSE Append(d, [key |-> k, val |-> v])

(***************************************************************************)
(* Reading the instrument files.                                           *)
(***************************************************************************)
RECURSIVE ReadSummaryFiles(_, _, _)
\* first loop of both parsers: data_dict_raw, label -> raw table, over the
\* listing in os.listdir order (acc is the dict so far)
ReadSummaryFiles(listing, kind, acc) ==
    IF listing = <<>>
    THEN Ok(acc)
    ELSE LET file == Head(listing)
         IN  IF ~(EndsWith(file, ".csv") /\ HasMarker(file, kind))
             THEN ReadSummaryFiles(Tail(listing), kind, acc)
             ELSE LET label == LabelOf(file, kind)
                  IN  IF ~label.ok
                      THEN label
                      ELSE IF Len(label.val) < 2
                      \* channel, attribute = label.split('_',1)
                      THEN Raise("ValueError: not enough values to unpack")
                      ELSE IF file.df.cols = <<>>
                      THEN Raise("EmptyDataError")
                      ELSE ReadSummaryFiles(Tail(listing), kind,
                                            DictSet(acc, label.val, file.df))

\* 'Position 1' in col
ContainsPosition1(col) == \E i \in DOMAIN col : col[i] = " - Position 1"

\* a table too short for its header handling: df.columns[0] or df.iloc[0,1:]
\* raises IndexError
TooShort(df) == Len(df.cols) < 1 \/ Len(df.rows) < 1

\* header normalisation of one per-position table (lines 94-99)
PositionHeader(df0) ==
    LET df1 == IF df0.cols[1] = <<"Scan">> THEN DropColumn(df0, 1) ELSE df0
    IN  IF TooShort(df1) THEN Raise("IndexError") ELSE Ok(PromoteHeader(df1))

RECURSIVE PositionLayout(_)
\* second loop of parse_position_summary_files over data_dict_raw: "ok" when
\* every table passes the "Position 1" check, "mismatch" at the first table
\* that does not (return False); the renamed table is never stored
PositionLayout(d) ==
    IF d = <<>>
    THEN Ok("ok")
    ELSE LET df == PositionHeader(Head(d).val)
         IN  IF ~df.ok
             THEN df
             ELSE IF \E j \in 2..Len(df.val.cols) : df.val.cols[j] = <<>>
             \* 'Position 1' in nan
             THEN Raise("TypeError")
             ELSE IF \A j \in 2..Len(df.val.cols) : ContainsPosition1(df.val.cols[j])
             THEN PositionLayout(Tail(d))
             ELSE Ok("mismatch")

\* returns [isFalse, dict]: False on a layout mismatch, else data_dict_processed,
\* which the loop never fills
parse_position_summary_files(listing) ==
    LET raw == ReadSummaryFiles(listing, "positions", <<>>)
    IN  IF ~raw.ok
        THEN raw
        ELSE LET layout == PositionLayout(raw.val)
             IN  IF ~layout.ok
                 THEN layout
                 ELSE IF layout.val = "ok"
                 THEN Ok([isFalse |-> FALSE, dict |-> <<>>])
                 ELSE Ok([isFalse |-> TRUE, dict |-> <<>>])

\* header normalisation of one per-well table (lines 130-140)
WellHeader(df0) ==
    LET df1 == IF df0.cols[1] = <<"Scan">> THEN DropColumn(df0, 1) ELSE df0
        df2 == DropNamed(df1, <<"Stdev">>)
    IN  IF TooShort(df2) THEN Raise("IndexError") ELSE Ok(PromoteHeader(df2))

parse_well_summary_files(listing) ==
    LET raw == ReadSummaryFiles(listing, "wells", <<>>)
    IN  IF ~raw.ok
        THEN raw
        ELSE IF \E i \in DOMAIN raw.val : ~WellHeader(raw.val[i].val).ok
        THEN Raise("IndexError")
        ELSE Ok([isFalse |-> FALSE,
                 dict |-> [i \in DOMAIN raw.val |->
                              [key |-> raw.val[i].key,
                               val |-> WellHeader(raw.val[i].val).val]]])

\* Python truth value of what parse_position_summary_files returns
Truthy(r) == ~r.isFalse /\ r.dict # <<>>

\* lines 164-168: which parser supplies data_dict_processed
SelectParser(listing) ==
    LET first == parse_position_summary_files(listing)
    IN  IF ~first.ok
        THEN [ok |-> FALSE, err |-> first.err, parser |-> "none", dict |-> <<>>]
        ELSE IF ~Truthy(first.val)
        THEN LET w == parse_well_summary_files(listing)
             IN  IF w.ok
                 THEN [ok |-> TRUE, err |-> "", parser |-> "well", dict |-> w.val.dict]
                 ELSE [ok |-> FALSE, err |-> w.err, parser |-> "well", dict |-> <<>>]
        ELSE [ok |-> TRUE, err |-> "", parser |-> "position",
              dict |-> parse_position_summary_files(listing).val.dict]

(***************************************************************************)
(* Post-normalisation of every parsed table (lines 170-178).               *)
(***************************************************************************)
\* col.replace(lexeme, '')
Replace(col, lexeme) == SelectSeq(col, LAMBDA x : x # lexeme)

RECURSIVE LStrip(_)
LStrip(col) == IF col # <<>> /\ Head(col) = " " THEN LStrip(Tail(col)) ELSE col

RECURSIVE RStrip(_)
RStrip(col) ==
    IF col # <<>> /\ col[Len(col)] = " " THEN RStrip(SubSeq(col, 1, Len(col) - 1)) ELSE col

\* col.strip()
Strip(col) == RStrip(LStrip(col))

\* pd.to_numeric(cell, errors='coerce'): the number a cell spells, else NaN
ToNumeric(cell) ==
    IF Len(cell) = 1 /\ \E n \in DOMAIN DecimalStr : DecimalStr[n] = cell[1]
    THEN {(CHOOSE n \in DOMAIN DecimalStr : DecimalStr[n] = cell[1]) - 1}
    ELSE NaN

NormalizeTable(df) ==
    [cols |-> [j \in DOMAIN df.cols |->
                  Strip(IF j = 1 THEN df.cols[1] ELSE Replace(df.cols[j], "Well "))],
     rows |-> [i \in DOMAIN df.rows |->
                  [j \in DOMAIN df.cols |-> ToNumeric(df.rows[i][j])]]]

\* the loop over data_dict_processed; a missing (NaN) column label has no
\* replace method
Normalize(dict) ==
    IF \E i \in DOMAIN dict :
           \E j \in 2..Len(dict[i].val.cols) : dict[i].val.cols[j] = <<>>
    THEN Raise("AttributeError")
    ELSE Ok([i \in DOMAIN dict |->
                [key |-> dict[i].key, val |-> NormalizeTable(dict[i].val)]])

(***************************************************************************)
(* Metadata sources.                                                       *)
(***************************************************************************)
\* CytenaProcessor._well_to_label; MetadataParser defines no such method
_well_to_label(well) ==
    <<ascii_uppercase[well.Row + 1], DecimalStr[well.Column + 2]>>

\* pd.read_excel: an empty cell is NaN
ReadCells(df) ==
    [cols |-> df.cols,
     rows |-> [i \in DOMAIN df.rows |->
                  [j \in DOMAIN df.cols |->
                      IF df.rows[i][j] = <<>> THEN NaN ELSE {df.rows[i][j]}]]]

\* str(cell) of astype(str)
AsStr(cell) == IF cell = NaN THEN <<"nan">> ELSE CHOOSE v \in cell : TRUE

RECURSIVE JoinWith(_, _)
\* sep.join(parts)
JoinWith(parts, sep) ==
    IF parts = <<>> THEN <<>>
    ELSE IF Len(parts) = 1 THEN Head(parts)
    ELSE Head(parts) \o sep \o JoinWith(Tail(parts), sep)

\* the "template" layout (lines 188-190): a "Well Group" column is added, the
\* other columns of each row joined by " "
TemplateMetadata(metadata) ==
    [cols |-> Append(metadata.cols, <<"Well Group">>),
     rows |-> [i \in DOMAIN metadata.rows |->
                  Append(metadata.rows[i],
                         {JoinWith([j \in 1..(Len(metadata.cols) - 1) |->
                                       AsStr(metadata.rows[i][j + 1])], <<" ">>)})]]

\* MetadataParser.parse_json_metadata(json_path): process passes the path of
\* the JSON file, and the method opens json_path/AnalysisWellGroup.json, a
\* path below a regular file
parse_json_metadata(file) == Raise("NotADirectoryError")

(***************************************************************************)
(* MetadataParser.parse_disco_bio_excel: the plate-grid layout.            *)
(***************************************************************************)
\* index of the first column of that name, 0 when there is none
ColumnIndex(df, name) ==
    IF \E j \in DOMAIN df.cols : df.cols[j] = name
    THEN CHOOSE j \in DOMAIN df.cols :
             df.cols[j] = name /\ \A k \in DOMAIN df.cols : df.cols[k] = name => j <= k
    ELSE 0

RenameColumn(df, old, new) ==
    [df EXCEPT !.cols = [j \in DOMAIN df.cols |-> IF df.cols[j] = old THEN new ELSE df.cols[j]]]

ConcColumn == <<"Ab conc.\n[nM]">>

\* the lexemes the pattern ' \(PPB-\d+\)' matches
IsPPB(lexeme) == lexeme \in {" (PPB-12)", " (PPB-7)"}

\* the dtype of the concentration column after pd.to_numeric: int64 when
\* every cell read from the sheet is a whole number, float64 as soon as one
\* cell is empty or spells no number (the model's numbers are whole)
ConcIsFloat(metadata) ==
    LET c == ColumnIndex(metadata, ConcColumn)
    IN  \E i \in DOMAIN metadata.rows :
            \/ metadata.rows[i][c] = NaN
            \/ ToNumeric(CHOOSE v \in metadata.rows[i][c] : TRUE) = NaN

\* str(ab_conc) in the f-string of line 87: "10" from an int64 column,
\* "10.0" or "nan" from a float64 one
ConcStr(x, as_float) ==
    IF x = NaN THEN <<"nan">>
    ELSE IF as_float THEN <<DecimalStr[(CHOOSE n \in x : TRUE) + 1], ".0">>
    ELSE <<DecimalStr[(CHOOSE n \in x : TRUE) + 1]>>

\* lines 40-48: the second column is renamed only when its values are A..H
CheckRowLetters(metadata) ==
    LET unique_values == {metadata.rows[i][2] : i \in DOMAIN metadata.rows}
        expected_values == {{<<ascii_uppercase[k]>>} : k \in 1..8}
    IN  IF unique_values = expected_values
        THEN [metadata EXCEPT !.cols[2] = <<"well column">>]
        ELSE metadata

\* lines 58-62: a column filled in exactly one row takes that value in every row
Broadcast(metadata) ==
    LET filled(j) == {i \in DOMAIN metadata.rows : metadata.rows[i][j] # NaN}
    IN  [metadata EXCEPT !.rows =
            [i \in DOMAIN metadata.rows |->
                [j \in DOMAIN metadata.cols |->
                    IF Cardinality(filled(j)) = 1
                    THEN metadata.rows[CHOOSE k \in filled(j) : TRUE][j]
                    ELSE metadata.rows[i][j]]]]

\* lines 64-68: " (PPB-<digits>)" is removed from the cells of columns 3..
StripPPB(metadata) ==
    [metadata EXCEPT !.rows =
        [i \in DOMAIN metadata.rows |->
            [j \in DOMAIN metadata.cols |->
                IF j >= 3 /\ metadata.rows[i][j] # NaN
                THEN {SelectSeq(CHOOSE v \in metadata.rows[i][j] : TRUE,
                                LAMBDA x : ~IsPPB(x))}
                ELSE metadata.rows[i][j]]]]

\* lines 76-87: the concentration is made numeric (the model's concentrations
\* are whole numbers, which round(2) keeps) and appended to the filled cells
\* of the columns headed 1..8; as_float is the dtype of the concentration
\* column
Annotate(metadata, as_float) ==
    LET c == ColumnIndex(metadata, ConcColumn)
        titration(j) == j >= 3 /\ ToNumeric(metadata.cols[j]) # NaN
                        /\ \A n \in ToNumeric(metadata.cols[j]) : 1 <= n /\ n <= 8
    IN  [metadata EXCEPT !.rows =
            [i \in DOMAIN metadata.rows |->
                [j \in DOMAIN metadata.cols |->
                    IF titration(j) /\ metadata.rows[i][j] # NaN
                    THEN {(CHOOSE v \in metadata.rows[i][j] : TRUE) \o <<" (">>
                          \o ConcStr(IF metadata.rows[i][c] = NaN THEN NaN
                                     ELSE ToNumeric(CHOOSE v \in metadata.rows[i][c] : TRUE),
                                     as_float)
                          \o <<" nM)">>}
                    ELSE metadata.rows[i][j]]]]

\* lines 92-101: melt on "Row", then Well = Row + Col
MeltGrid(metadata) ==
    LET r == ColumnIndex(metadata, <<"Row">>)
        others == SelectSeq([j \in DOMAIN metadata.cols |-> j], LAMBDA j : j # r)
        cell(j, i) ==
            <<IF metadata.rows[i][r] = NaN THEN NaN
              ELSE {(CHOOSE v \in metadata.rows[i][r] : TRUE) \o metadata.cols[j]},
              metadata.rows[i][j]>>
    IN  [cols |-> << <<"Well">>, <<"Well Group">> >>,
         rows |-> Flatten([k \in DOMAIN others |->
                              [i \in DOMAIN metadata.rows |-> cell(others[k], i)]])]

parse_disco_bio_excel(metadata0) ==
    IF Len(metadata0.cols) < 2
    THEN Raise("IndexError")
    ELSE LET m1 == StripPPB(Broadcast(CheckRowLetters(metadata0)))
         IN  IF ColumnIndex(m1, ConcColumn) = 0
             \* metadata['Ab conc.\n[nM]'] at line 73
             THEN Raise("KeyError")
             ELSE LET m2 == Annotate(m1, ConcIsFloat(metadata0))
                      m3 == RenameColumn(DropNamed(m2, ConcColumn),
                                         <<"well column">>, <<"Row">>)
                  IN  IF ColumnIndex(m3, <<"Row">>) = 0
                      \* melt(id_vars="Row") at line 94
                      THEN Raise("KeyError")
                      ELSE Ok(MeltGrid(m3))

(***************************************************************************)
(* Metadata resolution (lines 180-206).                                    *)
(***************************************************************************)
NoTable == [cols |-> <<>>, rows |-> <<>>]

\* [ok, err, bound, kind, table]: bound tells whether the local variable
\* metadata was assigned
ResolveMetadata(listing) ==
    LET excel_files == SelectSeq(listing, LAMBDA f : EndsWith(f, ".xlsx"))
        json_files == SelectSeq(listing, LAMBDA f : EndsWith(f, ".json"))
        unbound == [ok |-> TRUE, err |-> "", bound |-> FALSE, kind |-> "none",
                    table |-> NoTable]
        failed(e) == [ok |-> FALSE, err |-> e, bound |-> FALSE, kind |-> "none",
                      table |-> NoTable]
    IN  IF Len(excel_files) = 1
        THEN LET metadata == ReadCells(excel_files[1].df)
             IN  IF metadata.cols = <<>>
                 THEN failed("IndexError")
                 ELSE IF metadata.cols[1] = <<"Well">>
                 THEN [ok |-> TRUE, err |-> "", bound |-> TRUE, kind |-> "template",
                       table |-> TemplateMetadata(metadata)]
                 ELSE LET d == parse_disco_bio_excel(metadata)
                      IN  IF d.ok
                          THEN [ok |-> TRUE, err |-> "", bound |-> TRUE,
                                kind |-> "disco", table |-> d.val]
                          ELSE failed(d.err)
        ELSE IF Len(excel_files) > 1
        THEN unbound
        ELSE IF Len(json_files) > 1
        THEN unbound
        ELSE IF Len(json_files) = 0
        THEN unbound
        ELSE LET j == parse_json_metadata(json_files[1])
             IN  IF j.ok
                 THEN [ok |-> TRUE, err |-> "", bound |-> TRUE, kind |-> "json",
                       table |-> j.val]
                 ELSE failed(j.err)

(***************************************************************************)
(* Reshape and join (lines 207-237).                                       *)
(* A long table is [idcol, channel, attrCols, metaCols, rows]; a row is    *)
(* [Time, Well, channel, meta, attrs] with meta the metadata cells of the  *)
(* row, aligned with metaCols, and attrs a function from attribute names   *)
(* to values.                                                              *)
(***************************************************************************)
\* pd.melt(df, id_vars=[df.columns[0]], var_name='Well', value_name=attribute)
\* followed by df["channel"]=channel
Melt(label, df) ==
    LET attribute == Tail(label)
        channel == Head(label)
    IN  [idcol |-> df.cols[1],
         channel |-> channel,
         attrCols |-> <<attribute>>,
         metaCols |-> <<>>,
         rows |-> Flatten([j \in 1..(Len(df.cols) - 1) |->
                     [i \in DOMAIN df.rows |->
                         [Time |-> IF df.cols[1] = <<"Time">> THEN df.rows[i][1] ELSE NaN,
                          Well |-> df.cols[j + 1],
                          channel |-> channel,
                          meta |-> <<>>,
                          attrs |-> [a \in {attribute} |-> df.rows[i][j + 1]]]]])]

\* an inner join: a row whose well has no metadata entry is dropped
MergeMetadata_inner(df, metadata) ==
    LET w == ColumnIndex(metadata, <<"Well">>)
        matches(row) == SelectSeq(metadata.rows, LAMBDA m : m[w] = {row.Well})
    IN  [df EXCEPT
            !.metaCols = RemoveAt(metadata.cols, w),
            !.rows = Flatten([i \in DOMAIN df.rows |->
                        [k \in DOMAIN matches(df.rows[i]) |->
                            [df.rows[i] EXCEPT
                                !.meta = RemoveAt(matches(df.rows[i])[k], w)]]])]

\* pd.merge(df, metadata, on='Well', how='left'): every left row is kept, once
\* for each metadata row of its well, or once with missing metadata
MergeMetadata(df, metadata) ==
    LET w == ColumnIndex(metadata, <<"Well">>)
        missing == [j \in 1..(Len(metadata.cols) - 1) |-> NaN]
        matches(row) == SelectSeq(metadata.rows, LAMBDA m : m[w] = {row.Well})
    IN  [df EXCEPT
            !.metaCols = RemoveAt(metadata.cols, w),
            !.rows = Flatten([i \in DOMAIN df.rows |->
                        IF matches(df.rows[i]) = <<>>
                        THEN << [df.rows[i] EXCEPT !.meta = missing] >>
                        ELSE [k \in DOMAIN matches(df.rows[i]) |->
                                 [df.rows[i] EXCEPT
                                     !.meta = RemoveAt(matches(df.rows[i])[k], w)]]])]

\* pd.merge(left, right, on=cols_to_merge, how='left'): the keys are the
\* metadata columns (Well among them), Time and channel; missing keys match
\* each other
MergeLeft(left, right) ==
    LET attribute == right.attrCols[1]
        same(l, r) == l.Well = r.Well /\ l.meta = r.meta /\ l.Time = r.Time
                      /\ l.channel = r.channel
        matches(l) == SelectSeq(right.rows, LAMBDA r : same(l, r))
        with(l, v) == [l EXCEPT !.attrs =
                          [a \in DOMAIN l.attrs \cup {attribute} |->
                              IF a = attribute THEN v ELSE l.attrs[a]]]
    IN  [left EXCEPT
            !.attrCols = Append(left.attrCols, attribute),
            !.rows = Flatten([i \in DOMAIN left.rows |->
                        IF matches(left.rows[i]) = <<>>
                        THEN << with(left.rows[i], NaN) >>
                        ELSE [k \in DOMAIN matches(left.rows[i]) |->
                                 with(left.rows[i],
                                      matches(left.rows[i])[k].attrs[attribute])]])]

RECURSIVE MergeAll(_, _)
\* the loop of line 230
MergeAll(acc, dfs) ==
    IF dfs = <<>> THEN acc ELSE MergeAll(MergeLeft(acc, Head(dfs)), Tail(dfs))

\* lines 226-234 for one channel: the tables of the channel, coalesced
Coalesce(merged_dfs, channel) ==
    LET dfs_to_merge == SelectSeq(merged_dfs, LAMBDA df : df.rows[1].channel = channel)
    IN  IF Len(dfs_to_merge) > 1
        THEN << MergeAll(Head(dfs_to_merge), Tail(dfs_to_merge)) >>
        ELSE dfs_to_merge

\* pd.concat(merged_dfs_final, axis=0, ignore_index=True): the rows of every
\* table, each attribute column a table lacks filled with NaN
Concat(dfs) ==
    LET columns == UNION {Range(dfs[i].attrCols) : i \in DOMAIN dfs}
        widen(row) == [row EXCEPT !.attrs =
                          [a \in columns |->
                              IF a \in DOMAIN row.attrs THEN row.attrs[a] ELSE NaN]]
    IN  [attrCols |-> columns,
         metaCols |-> dfs[1].metaCols,
         hasTime |-> \E i \in DOMAIN dfs : dfs[i].idcol = <<"Time">>,
         rows |-> Flatten([i \in DOMAIN dfs |->
                     [k \in DOMAIN dfs[i].rows |-> widen(dfs[i].rows[k])]])]

(***************************************************************************)
(* Aggregation (lines 240-249).                                            *)
(***************************************************************************)
RECURSIVE Gcd(_, _)
Gcd(a, b) == IF b = 0 THEN a ELSE Gcd(b, a % b)

\* the rational n/d (d > 0, n >= 0) in lowest terms
Frac(n, d) == [num |-> n \div Gcd(n, d), den |-> d \div Gcd(n, d)]

RECURSIVE Sum(_)
Sum(xs) == IF xs = <<>> THEN 0 ELSE Head(xs) + Sum(Tail(xs))

\* 'mean' of a group: missing values are skipped
Mean(xs) == IF Len(xs) = 0 THEN NaN ELSE {Frac(Sum(xs), Len(xs))}

\* the population deviation (ddof=0)
Std_population(xs) ==
    IF Len(xs) < 1
    THEN NaN
    ELSE {Frac(Len(xs) * Sum([i \in DOMAIN xs |-> xs[i] * xs[i]]) - Sum(xs) * Sum(xs),
               Len(xs) * Len(xs))}

\* 'std' of a group, held as its square: the sample variance (ddof=1),
\* missing for fewer than two values
Std(xs) ==
    IF Len(xs) < 2
    THEN NaN
    ELSE {Frac(Len(xs) * Sum([i \in DOMAIN xs |-> xs[i] * xs[i]]) - Sum(xs) * Sum(xs),
               Len(xs) * (Len(xs) - 1))}

\* the Well Group cell of a row-level row
WellGroupOf(results, row) ==
    row.meta[CHOOSE j \in DOMAIN results.metaCols : results.metaCols[j] = <<"Well Group">>]

\* the non-missing values of one attribute in the rows of one group
GroupValues(results, key, a) ==
    LET members == SelectSeq(results.rows,
                       LAMBDA r : /\ WellGroupOf(results, r) = key[1]
                                  /\ r.Time = key[2]
                                  /\ r.channel = key[3]
                                  /\ r.attrs[a] # NaN)
    IN  [i \in DOMAIN members |-> CHOOSE v \in members[i].attrs[a] : TRUE]

\* the group keys groupby keeps: a row with a missing key is dropped
GroupKeys(results) ==
    {<<WellGroupOf(results, r), r.Time, r.channel>> :
        r \in {x \in Range(results.rows) :
                  WellGroupOf(results, x) # NaN /\ x.Time # NaN}}

\* results.groupby(aggregate_cols)[attribute_cols].agg(['mean','std']) with
\* the columns renamed <attribute>_avg and <attribute>_std; the rows as a set
Aggregate(results, attribute_cols, scan_id) ==
    {[WellGroup |-> key[1], Time |-> key[2], channel |-> key[3],
      stats |-> [a \in attribute_cols |->
                    [avg |-> Mean(GroupValues(results, key, a)),
                     std |-> Std(GroupValues(results, key, a))]],
      ScanID |-> scan_id] : key \in GroupKeys(results)}

(***************************************************************************)
(* CytenaProcessor.process.                                                *)
(***************************************************************************)
NoResults == [attrCols |-> {}, metaCols |-> <<>>, hasTime |-> FALSE, rows |-> <<>>]

\* what one call leaves behind: the outcome, the steps it went through and
\* the values of its local variables as far as they were computed (the
\* tables of data_dict_processed and merged_dfs as sets)
Outcome(ok, err, stages, scan_id, parser, data, metadata, merged_dfs, results, results_agg) ==
    [ok |-> ok, err |-> err, stages |-> stages, scan_id |-> scan_id,
     parser |-> parser, data |-> Range(data),
     metadata |-> [bound |-> metadata.bound, kind |-> metadata.kind,
                   table |-> metadata.table],
     merged_dfs |-> Range(merged_dfs), results |-> results, results_agg |-> results_agg]

NoMetadata == [bound |-> FALSE, kind |-> "none", table |-> NoTable]

\* lines 207-249, once the tables and the metadata outcome are known
ReshapeAndJoin(stages, scan_id, parser, data, md) ==
    LET st1 == Append(stages, "join")
        fail(e, st, merged) ==
            Outcome(FALSE, e, st, scan_id, parser, data, md, merged, NoResults, {})
    IN  IF ~md.bound
        \* line 218, or line 225 when there is no table to merge
        THEN fail("UnboundLocalError", st1, <<>>)
        ELSE IF data # <<>> /\ ColumnIndex(md.table, <<"Well">>) = 0
        THEN fail("KeyError", st1, <<>>)
        ELSE
        LET merged_dfs == [i \in DOMAIN data |->
                              MergeMetadata(Melt(data[i].key, data[i].val), md.table)]
            st2 == Append(st1, "coalesce")
        IN  IF \E i \in DOMAIN merged_dfs : merged_dfs[i].rows = <<>>
            \* df['channel'].iloc[0] of an empty table
            THEN fail("IndexError", st2, merged_dfs)
            ELSE IF \E c \in DOMAIN possible_channels :
                        LET dfs == SelectSeq(merged_dfs,
                                       LAMBDA df : df.channel = possible_channels[c])
                        IN  Len(dfs) > 1 /\ \E i \in DOMAIN dfs : dfs[i].idcol # <<"Time">>
            THEN fail("KeyError", st2, merged_dfs)
            ELSE
            LET merged_dfs_final ==
                    Flatten([c \in DOMAIN possible_channels |->
                                Coalesce(merged_dfs, possible_channels[c])])
                st3 == Append(st2, "concat")
            IN  IF merged_dfs_final = <<>>
                THEN fail("ValueError: No objects to concatenate", st3, merged_dfs)
                ELSE
                LET concat == Concat(merged_dfs_final)
                    results == [concat EXCEPT
                                   !.rows = [k \in DOMAIN concat.rows |->
                                                [Time |-> concat.rows[k].Time,
                                                 Well |-> concat.rows[k].Well,
                                                 channel |-> concat.rows[k].channel,
                                                 meta |-> concat.rows[k].meta,
                                                 attrs |-> concat.rows[k].attrs,
                                                 ScanID |-> scan_id]]]
                    attribute_cols == results.attrCols \cap possible_attributes
                    st4 == Append(st3, "aggregate")
                IN  IF ~results.hasTime
                       \/ ~\E j \in DOMAIN results.metaCols :
                               results.metaCols[j] = <<"Well Group">>
                    THEN Outcome(FALSE, "KeyError", st4, scan_id, parser, data, md,
                                 merged_dfs, results, {})
                    ELSE IF attribute_cols = {}
                    \* agg over no column has nothing to concatenate
                    THEN Outcome(FALSE, "ValueError: No objects to concatenate", st4,
                                 scan_id, parser, data, md, merged_dfs, results, {})
                    ELSE Outcome(TRUE, "", Append(st4, "return"), scan_id, parser, data,
                                 md, merged_dfs, results,
                                 Aggregate(results, attribute_cols, scan_id))

\* process(data_dir) on a directory whose os.listdir order is listing
process(dir, listing) ==
    LET checked == _validate_directory(dir)
        early(e, st, scan_id, parser) ==
            Outcome(FALSE, e, st, scan_id, parser, <<>>, NoMetadata, <<>>, NoResults, {})
    IN  IF ~checked.ok
        THEN early(checked.err, <<"validate">>, NaN, "none")
        ELSE
        LET scan_id == _extract_scan_id(listing)
            parsed == SelectParser(listing)
            st2 == <<"validate", "scan_id", "parse">>
        IN  IF ~parsed.ok
            THEN early(parsed.err, st2, scan_id, parsed.parser)
            ELSE
            LET normal == Normalize(parsed.dict)
                st3 == Append(st2, "normalize")
            IN  IF ~normal.ok
                THEN early(normal.err, st3, scan_id, parsed.parser)
                ELSE
                LET md == ResolveMetadata(listing)
                    st4 == Append(st3, "metadata")
                IN  IF ~md.ok
                    THEN Outcome(FALSE, md.err, st4, scan_id, parsed.parser, normal.val,
                                 NoMetadata, <<>>, NoResults, {})
                    ELSE ReshapeAndJoin(st4, scan_id, parsed.parser, normal.val, md)

(***************************************************************************)
(* The files a staging directory can hold.                                 *)
(***************************************************************************)
Cell(text) == IF text = "" THEN <<>> ELSE <<text>>

\* an instrument export as pd.read_csv returns it: an optional leading "Scan"
\* column, the time column, one column per well and an optional "Stdev"
\* column; the first row holds the well labels, the second the units, the
\* others one time point each (data: rows of cell texts, the time first)
WideCsv(scan, stdev, labels, data) ==
    LET n == Len(labels)
        lead(x) == IF scan THEN <<x>> ELSE <<>>
        trail(x) == IF stdev THEN <<x>> ELSE <<>>
    IN  [cols |-> lead(<<"Scan">>) \o << <<"Time">> >>
                  \o [j \in 1..n |-> <<"Unnamed: ", DecimalStr[j + 1]>>]
                  \o trail(<<"Stdev">>),
         rows |-> << lead(<<>>) \o << <<>> >> \o labels \o trail(<<>>),
                     lead(<<>>) \o << <<"h">> >> \o [j \in 1..n |-> <<"%">>] \o trail(<<>>) >>
                  \o [i \in DOMAIN data |->
                         lead(<<"1">>) \o [j \in DOMAIN data[i] |-> Cell(data[i][j])]
                         \o trail(<<"0">>)]]

CsvFile(toks, df) == [toks |-> toks, ext |-> ".csv", df |-> df, json |-> <<>>]

XlsxFile(toks, df) == [toks |-> toks, ext |-> ".xlsx", df |-> df, json |-> <<>>]

OtherFile(toks, ext, json) == [toks |-> toks, ext |-> ext, df |-> NoTable, json |-> json]

WellLabel(row, col) == <<"Well ", row, col>>

PositionLabel(row, col, position) == <<"Well ", row, col, position>>

BF_confluency ==
    CsvFile(<<"scan42", "summary", "wells", "BF", "confluency">>,
            WideCsv(TRUE, TRUE, <<WellLabel("A", "1"), WellLabel("A", "2")>>,
                    << <<"1", "2", "4">>, <<"2", "3", "n/a">> >>))

BF_total_intensity ==
    CsvFile(<<"scan42", "summary", "wells", "BF", "total", "intensity">>,
            WideCsv(FALSE, FALSE, <<WellLabel("A", "1")>>, << <<"1", "7">> >>))

green_confluency ==
    CsvFile(<<"scan42", "summary", "wells", "green", "confluency">>,
            WideCsv(TRUE, FALSE, <<WellLabel("A", "1"), WellLabel("B", "1")>>,
                    << <<"1", "5", "6">> >>))

EC_object_count ==
    CsvFile(<<"scan7", "summary", "wells", "EC", "object", "count">>,
            WideCsv(FALSE, TRUE, <<WellLabel("A", "1"), WellLabel("A", "2")>>,
                    << <<"1", "1", "3">> >>))

red_confluency ==
    CsvFile(<<"scan42", "summary", "wells", "red", "confluency">>,
            WideCsv(FALSE, FALSE, <<WellLabel("A", "1")>>, << <<"1", "9">> >>))

BF_roundness ==
    CsvFile(<<"scan42", "summary", "wells", "BF", "roundness">>,
            WideCsv(FALSE, FALSE, <<WellLabel("A", "1"), WellLabel("A", "2")>>,
                    << <<"1", "8", "8">> >>))

positions_BF_confluency ==
    CsvFile(<<"scan42", "summary", "positions", "BF", "confluency">>,
            WideCsv(TRUE, FALSE,
                    <<PositionLabel("A", "1", " - Position 1"),
                      PositionLabel("A", "2", " - Position 1")>>,
                    << <<"1", "2", "6">> >>))

positions_green_confluency ==
    CsvFile(<<"scan42", "summary", "positions", "green", "confluency">>,
            WideCsv(TRUE, FALSE,
                    <<PositionLabel("A", "1", " - Position 1"),
                      PositionLabel("A", "1", " - Position 2")>>,
                    << <<"1", "3", "5">> >>))

\* the "template" layout: one row per well
template_xlsx ==
    XlsxFile(<<"layout">>,
             [cols |-> << <<"Well">>, <<"Compound">> >>,
              rows |-> << << <<"A", "1">>, <<"drugA">> >>,
                          << <<"A", "2">>, <<"drugA">> >> >>])

\* a template that maps well A1 twice
template_twice_xlsx ==
    XlsxFile(<<"layout", "v2">>,
             [cols |-> << <<"Well">>, <<"Compound">> >>,
              rows |-> << << <<"A", "1">>, <<"drugA">> >>,
                          << <<"A", "1">>, <<"drugB">> >>,
                          << <<"A", "2">>, <<"drugA">> >> >>])

\* the plate-grid layout: rows A..H, plate columns 1 and 2
disco_xlsx ==
    XlsxFile(<<"plate">>,
             [cols |-> << ConcColumn, <<"Unnamed: 1">>, <<"1">>, <<"2">> >>,
              rows |-> [k \in 1..8 |->
                          << <<"10">>, <<ascii_uppercase[k]>>,
                             IF k = 1 THEN <<"mAb", " (PPB-12)">> ELSE <<>>,
                             IF k <= 2 THEN <<"ctrl">> ELSE <<"blank">> >>]])

\* a plate grid whose second column holds the letters A..D only
disco_short_xlsx ==
    XlsxFile(<<"plate", "AD">>,
             [cols |-> << ConcColumn, <<"Unnamed: 1">>, <<"1">>, <<"2">> >>,
              rows |-> [k \in 1..4 |->
                          << <<"10">>, <<ascii_uppercase[k]>>, <<"mAb">>, <<"ctrl">> >>]])

\* a plate grid whose first column is not named "Ab conc.\n[nM]"
disco_noconc_xlsx ==
    XlsxFile(<<"plate", "noconc">>,
             [cols |-> << <<"conc">>, <<"Unnamed: 1">>, <<"1">> >>,
              rows |-> [k \in 1..8 |->
                          << <<"10">>, <<ascii_uppercase[k]>>, <<"mAb">> >>]])

\* a plate grid with a column whose header is not a number and an empty
\* concentration cell in row H
disco_notes_xlsx ==
    XlsxFile(<<"plate", "notes">>,
             [cols |-> << ConcColumn, <<"Unnamed: 1">>, <<"1">>, <<"notes">> >>,
              rows |-> [k \in 1..8 |->
                          << IF k = 8 THEN <<>> ELSE <<"10">>, <<ascii_uppercase[k]>>,
                             IF k <= 2 THEN <<"mAb">> ELSE <<"ctrl">>,
                             IF k <= 4 THEN <<"day1">> ELSE <<"day2">> >>]])

AnalysisWellGroup_json ==
    OtherFile(<<"AnalysisWellGroup">>, ".json",
              << [GroupName |-> <<"G1">>,
                  SelectedWells |-> << [Row |-> 0, Column |-> 0],
                                       [Row |-> 0, Column |-> 1] >>],
                 [GroupName |-> <<"G2">>,
                  SelectedWells |-> << [Row |-> 1, Column |-> 0] >>] >>)

export_json == OtherFile(<<"export">>, ".json", <<>>)

notes_txt == OtherFile(<<"notes">>, ".txt", <<>>)

Catalogue ==
    { BF_confluency, BF_total_intensity, green_confluency, EC_object_count,
      red_confluency, BF_roundness, positions_BF_confluency,
      positions_green_confluency, template_xlsx, template_twice_xlsx, disco_xlsx,
      disco_short_xlsx, disco_noconc_xlsx, disco_notes_xlsx,
      AnalysisWellGroup_json, export_json, notes_txt }

(***************************************************************************)
(* The state machine: a staging directory and the process calls made on    *)
(* it.  os.listdir returns the files in an arbitrary order.                *)
(***************************************************************************)
Directories ==
    {[exists |-> FALSE, files |-> {}]}
    \cup {[exists |-> TRUE, files |-> S] :
             S \in {T \in SUBSET Catalogue : Cardinality(T) <= MaxFiles}}

\* no session: the dict processed_data and the upload folder are empty
NoSessions == [s \in {} |-> {}]

\* a traversal of shutil.rmtree: todo the directories it listed and has not
\* entered yet, cur the directory it is emptying ("" for none), files the
\* names it listed there and has not unlinked yet
NoTraversal == [todo |-> {}, cur |-> "", files |-> {}]

\* cleanup_temp_dir has not been called and the upload folder, made when
\* the module was loaded, is there
NotExiting == [pc |-> "no", rmtree |-> NoTraversal, folder |-> TRUE]

\* the last request served and its response; session_id is the id the
\* request names or, for an upload, the id it drew ("" for none)
Served(handler, request, session_id, result) ==
    [handler |-> handler, request |-> request, session_id |-> session_id,
     status |-> result.status, error |-> result.error, body |-> result.body]

NoRequest ==
    [handler |-> "none", request |-> <<>>, session_id |-> "", status |-> 0,
     error |-> "", body |-> <<>>]

Init ==
    /\ staging \in Directories
    /\ runs = <<>>
    /\ processed_data = NoSessions
    /\ session_dirs = NoSessions
    /\ issued = 0
    /\ last = NoRequest
    /\ uploads = NoSessions
    /\ plots = {}
    /\ clears = EmptyBag
    /\ exit = NotExiting

Process ==
    /\ Len(runs) < MaxRuns
    /\ \E listing \in Perms(staging.files) :
           runs' = Append(runs, process(staging, listing))
    /\ UNCHANGED <<staging, processed_data, session_dirs, issued, last, uploads, plots,
                   clears, exit>>

Next == Process

Spec == Init /\ [][Next]_vars

(***************************************************************************)
(* The upload handler (src/app.py).  A session id is a string; the dict    *)
(* processed_data maps session ids to cached aggregated tables, and        *)
(* session_dirs maps the session ids whose directory exists below          *)
(* UPLOAD_FOLDER to the names of the files in it.  A cached table is       *)
(* [attrs |-> the attributes that have an _avg and an _std column,         *)
(* rows |-> the rows of results_agg].  File extensions are lower-case.     *)
(* The server of app.run handles each request on a thread of its own, and *)
(* a step of the model is one access of one thread to the dict or to the   *)
(* upload folder, with the computation that follows it.  uploads maps the  *)
(* session id of every upload_files call in progress to its local state:   *)
(* [request, saved |-> number of files saved so far, pc |-> where the call *)
(* is, listing |-> what its last os.listdir returned, scan_id, parser,     *)
(* data |-> data_dict_processed, run |-> what it keeps of process].  plots *)
(* holds the requests of the get_plot_data calls between their test of the *)
(* dict and their read of it; clears is the bag of the clear_session calls *)
(* in progress, [session_id, pc, rmtree]; exit is the state of             *)
(* cleanup_temp_dir, with folder telling whether the upload folder itself  *)
(* exists, and no thread runs once the interpreter has exited.             *)
(***************************************************************************)
\* os.urandom(16).hex(): the ids in the order they are drawn; of 2^128
\* values none is drawn twice and none is guessed before it is drawn
HexIds == <<"a3f1", "9c0e", "5b7d", "e210">>

\* allowed_file(filename)
allowed_file(file) == file.ext \in {".csv", ".xlsx", ".xls"}

\* the "_"-separated tokens secure_filename makes of one token: white space
\* becomes "_"
SplitSpaces(tok) == IF tok = "plate layout" THEN <<"plate", "layout">> ELSE <<tok>>

\* werkzeug's secure_filename on the names of the model
secure_filename(file) ==
    [file EXCEPT !.toks = Flatten([i \in DOMAIN file.toks |-> SplitSpaces(file.toks[i])])]

\* lines 77-83: the files of the request that are saved, in request order,
\* under their secured names (a file without name is falsy)
ToSave(files) ==
    LET kept == SelectSeq(files, LAMBDA f : f.toks # <<>> /\ allowed_file(f))
    IN  [i \in DOMAIN kept |-> secure_filename(kept[i])]

\* the name of a file, without its content
NameOf(file) == [toks |-> file.toks, ext |-> file.ext]

\* the session directory after the saves: a later file of the same name
\* overwrites an earlier one
DirAfter(saved) ==
    {saved[i] : i \in {k \in DOMAIN saved :
                          \A l \in DOMAIN saved :
                              l > k => NameOf(saved[l]) # NameOf(saved[k])}}

\* a jsonify response: the status, the error message and what else it holds
Response(status, error, body) == [status |-> status, error |-> error, body |-> body]

\* the files of the session directory dir (names) of an upload in progress
FilesIn(upload, dir) ==
    {f \in DirAfter(ToSave(upload.request.files)) : NameOf(f) \in dir}

\* what an upload keeps of the outcome of process: results_agg as the table
\* it caches, and the exception
Kept(run) ==
    [ok |-> run.ok, err |-> run.err, scan_id |-> run.scan_id,
     results_agg |-> [attrs |-> run.results.attrCols \cap possible_attributes,
                      rows |-> run.results_agg]]

NoRun == [ok |-> FALSE, err |-> "", scan_id |-> NaN,
          results_agg |-> [attrs |-> {}, rows |-> {}]]

\* lines 97-134: the success response of upload_files
UploadResponse(session_id, upload) ==
    LET results_agg == upload.run.results_agg
        saved == ToSave(upload.request.files)
    IN  Response(200, "",
                 [session_id |-> session_id,
                  channels |-> {r.channel : r \in results_agg.rows},
                  attributes |-> results_agg.attrs,
                  well_groups |-> UNION {r.WellGroup : r \in results_agg.rows},
                  uploaded_files |-> [i \in DOMAIN saved |-> NameOf(saved[i])],
                  scan_id |-> upload.run.scan_id])

\* the steps of shutil.rmtree(..., ignore_errors=True) from the traversal r
\* on the session directories dirs, each [rmtree |-> the traversal after the
\* step, dirs |-> the directories after it]: the next listed directory is
\* entered and its files are listed, or one listed file is unlinked, or the
\* directory is removed, which fails on a directory that is not empty
rmtree(r, dirs) ==
    IF r.cur = ""
    THEN {[rmtree |-> [todo |-> r.todo \ {id}, cur |-> id,
                       files |-> IF id \in DOMAIN dirs THEN dirs[id] ELSE {}],
           dirs |-> dirs] : id \in r.todo}
    ELSE IF r.files # {}
    THEN {[rmtree |-> [r EXCEPT !.files = @ \ {f}],
           dirs |-> IF r.cur \in DOMAIN dirs
                    THEN [dirs EXCEPT ![r.cur] = @ \ {f}]
                    ELSE dirs] : f \in r.files}
    ELSE {[rmtree |-> [r EXCEPT !.cur = ""],
           dirs |-> IF r.cur \in DOMAIN dirs /\ dirs[r.cur] = {}
                    THEN [k \in DOMAIN dirs \ {r.cur} |-> dirs[k]]
                    ELSE dirs]}

\* the traversal has nothing left to do
Removed(r) == r.todo = {} /\ r.cur = ""

\* an upload_files call that has drawn its session id
NewUpload(request) ==
    [request |-> request, saved |-> 0, pc |-> "makedirs", listing |-> <<>>,
     scan_id |-> NaN, parser |-> "none", data |-> <<>>, run |-> NoRun]

\* the call after process raised err
Raised(upload, err) ==
    [upload EXCEPT !.pc = "fail", !.listing = <<>>, !.data = <<>>,
                   !.run = [NoRun EXCEPT !.err = err]]

\* the call after process left its last access to the directory behind, run
\* being what lines 207-249 make of its tables and its metadata
Returned(upload, run) ==
    [upload EXCEPT !.pc = IF run.ok THEN "store" ELSE "fail",
                   !.listing = <<>>, !.data = <<>>, !.run = Kept(run)]

\* the summary parser of a position of the call and the marker of its files
ParserAt ==
    [positions |-> "positions", read_positions |-> "positions",
     positions_again |-> "positions", read_positions_again |-> "positions",
     wells |-> "wells", read_wells |-> "wells"]

\* the files of a listing that a summary parser reads
ToRead(listing, kind) ==
    {i \in DOMAIN listing : EndsWith(listing[i], ".csv") /\ HasMarker(listing[i], kind)}

\* the first loop and the rest of a summary parser on a listing of which
\* the files of present are still there when pd.read_csv opens them
ParseSummaries(listing, kind, present) ==
    LET missing == {i \in ToRead(listing, kind) : listing[i] \notin present}
    IN  IF missing = {}
        THEN IF kind = "positions"
             THEN parse_position_summary_files(listing)
             ELSE parse_well_summary_files(listing)
        ELSE LET k == CHOOSE i \in missing : \A l \in missing : i <= l
                 before == ReadSummaryFiles(SubSeq(listing, 1, k - 1), kind, <<>>)
                 label == LabelOf(listing[k], kind)
             IN  IF ~before.ok
                 THEN before
                 ELSE IF ~label.ok
                 THEN label
                 ELSE IF Len(label.val) < 2
                 THEN Raise("ValueError: not enough values to unpack")
                 ELSE Raise("FileNotFoundError")

\* lines 164-178 after a summary parser returned parsed at position pc
AfterSummaries(upload, pc, parsed) ==
    IF ~parsed.ok
    THEN Raised(upload, parsed.err)
    ELSE IF ParserAt[pc] = "positions" /\ pc \notin {"positions_again", "read_positions_again"}
    THEN [upload EXCEPT !.listing = <<>>,
                        !.pc = IF Truthy(parsed.val) THEN "positions_again" ELSE "wells"]
    ELSE IF ~Normalize(parsed.val.dict).ok
    THEN Raised(upload, Normalize(parsed.val.dict).err)
    ELSE [upload EXCEPT !.listing = <<>>, !.pc = "excel",
                        !.parser = IF ParserAt[pc] = "wells" THEN "well" ELSE "position",
                        !.data = Normalize(parsed.val.dict).val]

\* lines 207-249 of the call once its metadata outcome md is known
AfterMetadata(upload, md) ==
    IF ~md.ok
    THEN Raised(upload, md.err)
    ELSE Returned(upload,
                  ReshapeAndJoin(<<"validate", "scan_id", "parse", "normalize", "metadata">>,
                                 upload.scan_id, upload.parser, upload.data, md))

\* the units of possible_attributes
AttributeUnit(attribute) ==
    IF attribute \in {<<"total", "intensity">>, <<"average", "mean", "intensity">>}
    THEN "AU"
    ELSE IF attribute \in {<<"relative", "spheroid", "area">>,
                           <<"relative", "fluorescence", "area">>, <<"confluency">>}
    THEN "%"
    ELSE IF attribute \in {<<"total", "spheroid", "area">>, <<"total", "area">>}
    THEN "mm2"
    ELSE IF attribute = <<"object", "count">>
    THEN "1/mm2"
    ELSE IF attribute = <<"object", "count", "per", "fov">>
    THEN "per FOV"
    ELSE ""

\* the columns of a cached table that are no _avg or _std column
KeyColumns == { <<"Well Group">>, <<"Time">>, <<"channel">>, <<"Scan ID">> }

\* row[column] for a column of the cached table (the _avg column of an
\* attribute is named by the attribute)
CellOf(df, row, column) ==
    IF column \in df.attrs THEN row.stats[column].avg
    ELSE IF column = <<"Time">> THEN row.Time
    ELSE IF column = <<"channel">> THEN {row.channel}
    ELSE IF column = <<"Well Group">> THEN row.WellGroup
    ELSE row.ScanID

\* float(row[column]) raises ValueError on a text cell
IsNumeric(df, column) == column \in df.attrs \cup { <<"Time">> }

\* get_plot_data on a request [session_id, attribute, channel, well_groups]
\* ("" for a missing session id or channel, <<>> for no well group)
get_plot_data(request, cached) ==
    IF request.session_id = "" \/ request.session_id \notin DOMAIN cached
    THEN Response(400, "Invalid session or data not found", <<>>)
    ELSE
    LET df == cached[request.session_id]
        by_channel == IF request.channel # ""
                      THEN {r \in df.rows : r.channel = request.channel}
                      ELSE df.rows
        attribute == request.attribute
    IN  IF attribute \notin KeyColumns \cup df.attrs
        THEN Response(400, "Attribute not found in data", <<>>)
        ELSE
        LET with_data == {r \in by_channel :
                             r.Time # NaN /\ CellOf(df, r, attribute) # NaN}
            all_well_groups_with_data == UNION {r.WellGroup : r \in with_data}
            df_filtered == IF request.well_groups # <<>>
                           THEN {r \in by_channel :
                                    r.WellGroup \subseteq Range(request.well_groups)
                                    /\ r.WellGroup # NaN}
                           ELSE by_channel
            plotted == {r \in df_filtered : r \in with_data /\ r.WellGroup # NaN}
        IN  IF plotted # {} /\ ~IsNumeric(df, attribute)
            THEN Response(500, "Error getting plot data", <<"ValueError">>)
            ELSE Response(200, "",
                     [datasets |->
                          {[label |-> g,
                            data |-> {[x |-> r.Time, y |-> CellOf(df, r, attribute)] :
                                         r \in {q \in plotted : q.WellGroup = {g}}}] :
                              g \in UNION {r.WellGroup : r \in plotted}},
                      attribute |-> attribute,
                      avg_column |-> attribute \in df.attrs,
                      channel |-> request.channel,
                      unit |-> AttributeUnit(attribute),
                      well_groups_with_data |-> all_well_groups_with_data])

\* the session directories at or below os.path.join(UPLOAD_FOLDER, session_id):
\* "." names the upload folder itself
DirsAt(session_id, dirs) ==
    IF session_id = "." THEN DOMAIN dirs ELSE {session_id} \cap DOMAIN dirs

\* f without the keys of S
Without(f, S) == [k \in DOMAIN f \ S |-> f[k]]

(***************************************************************************)
(* The requests the handler serves.                                        *)
(***************************************************************************)
\* an export whose only well the template does not list
EC_total_area ==
    CsvFile(<<"scan42", "summary", "wells", "EC", "total", "area">>,
            WideCsv(FALSE, FALSE, <<WellLabel("B", "2")>>, << <<"1", "5">> >>))

\* a template uploaded under a name with a blank
plate_layout_xlsx == [template_xlsx EXCEPT !.toks = <<"plate layout">>]

legacy_xls == OtherFile(<<"layout">>, ".xls", <<>>)

\* a file part without file name
unnamed_file == OtherFile(<<>>, "", <<>>)

UploadRequests ==
    { [has_files |-> FALSE, files |-> <<>>] }
    \cup {[has_files |-> TRUE, files |-> fs] :
             fs \in { <<unnamed_file>>,
                      <<AnalysisWellGroup_json, notes_txt>>,
                      <<legacy_xls>>,
                      <<BF_confluency>>,
                      <<green_confluency, BF_confluency>>,
                      <<BF_confluency, plate_layout_xlsx>>,
                      <<EC_total_area, template_xlsx>> }}

\* the session ids of the uploads that were answered
Finished == {HexIds[i] : i \in 1..issued} \ DOMAIN uploads

\* the session ids a client sends: those of the uploads answered so far, an
\* id never drawn, the upload folder's own name and none
RequestIds == Finished \cup {"ffff", ".", ""}

\* the selections a client sends with a session id: an attribute, a channel
\* or none, and well groups or none
PlotSelections ==
    { [attribute |-> <<"confluency">>, channel |-> "", well_groups |-> <<>>],
      [attribute |-> <<"confluency">>, channel |-> "BF",
       well_groups |-> << <<"drugA">> >>],
      [attribute |-> <<"roundness">>, channel |-> "", well_groups |-> <<>>],
      [attribute |-> <<"channel">>, channel |-> "", well_groups |-> <<>>] }

PlotRequests ==
    {[session_id |-> s, attribute |-> p.attribute, channel |-> p.channel,
      well_groups |-> p.well_groups] :
        s \in Finished, p \in PlotSelections}
    \cup {[session_id |-> s, attribute |-> <<"confluency">>, channel |-> "",
           well_groups |-> <<>>] : s \in {"ffff", ""}}

(***************************************************************************)
(* The state machine of the handler: a step is the part of one request's   *)
(* handling between two accesses to the session directories or the dict.   *)
(***************************************************************************)
AppInit ==
    /\ staging = [exists |-> FALSE, files |-> {}]
    /\ runs = <<>>
    /\ processed_data = NoSessions
    /\ session_dirs = NoSessions
    /\ issued = 0
    /\ last = NoRequest
    /\ uploads = NoSessions
    /\ plots = {}
    /\ clears = EmptyBag
    /\ exit = NotExiting

\* the interpreter has not exited
running == exit.pc # "done"

\* the session directory of an upload in progress as its call of process
\* finds it now
DirOf(session_id) ==
    IF session_id \in DOMAIN session_dirs
    THEN [exists |-> TRUE,
          files |-> FilesIn(uploads[session_id], session_dirs[session_id])]
    ELSE [exists |-> FALSE, files |-> {}]

\* upload_files, lines 62-74: the early answers, or a session id is drawn and
\* os.makedirs looks for the upload folder, which it makes when it is not
\* there
UploadBegin ==
    /\ running
    /\ issued < MaxSessions
    /\ \E request \in UploadRequests :
           IF ~request.has_files
           THEN /\ last' = Served("upload_files", request, "",
                                  Response(400, "No files provided", <<>>))
                /\ UNCHANGED <<issued, uploads, exit>>
           ELSE IF request.files = <<>> \/ request.files[1].toks = <<>>
           THEN /\ last' = Served("upload_files", request, "",
                                  Response(400, "No files selected", <<>>))
                /\ UNCHANGED <<issued, uploads, exit>>
           ELSE /\ issued' = issued + 1
                /\ uploads' = uploads @@ (HexIds[issued + 1] :> NewUpload(request))
                /\ exit' = [exit EXCEPT !.folder = TRUE]
                /\ UNCHANGED last
    /\ UNCHANGED <<staging, runs, processed_data, session_dirs, plots, clears>>

\* line 74, the end of os.makedirs: the session directory is made,
\* FileNotFoundError when the upload folder was removed since UploadBegin:
\* the handler of line 140 answers
UploadMakedirs ==
    /\ running
    /\ \E session_id \in DOMAIN uploads :
           /\ uploads[session_id].pc = "makedirs"
           /\ IF exit.folder
              THEN /\ session_dirs' = session_dirs @@ (session_id :> {})
                   /\ uploads' = [uploads EXCEPT ![session_id].pc = "save"]
                   /\ UNCHANGED last
              ELSE /\ last' = Served("upload_files", uploads[session_id].request,
                                     session_id, Response(500, "Upload error", <<>>))
                   /\ uploads' = Without(uploads, {session_id})
                   /\ UNCHANGED session_dirs
    /\ UNCHANGED <<staging, runs, processed_data, issued, plots, clears, exit>>

\* lines 78-83: the next file is saved; file.save raises when the session
\* directory is gone, and may raise otherwise: the handler of line 140
\* answers and leaves the directory
UploadSave ==
    /\ running
    /\ \E session_id \in DOMAIN uploads : \E raises \in BOOLEAN :
           LET upload == uploads[session_id]
               saved == ToSave(upload.request.files)
           IN  /\ upload.pc = "save"
               /\ upload.saved < Len(saved)
               /\ IF raises \/ session_id \notin DOMAIN session_dirs
                  THEN /\ last' = Served("upload_files", upload.request, session_id,
                                         Response(500, "Upload error", <<>>))
                       /\ uploads' = Without(uploads, {session_id})
                       /\ UNCHANGED session_dirs
                  ELSE /\ session_dirs' =
                              [session_dirs EXCEPT
                                  ![session_id] = @ \cup {NameOf(saved[upload.saved + 1])}]
                       /\ uploads' = [uploads EXCEPT ![session_id].saved = @ + 1]
                       /\ UNCHANGED last
    /\ UNCHANGED <<staging, runs, processed_data, issued, plots, clears, exit>>

\* lines 85-87: no file was saved.  No other thread puts a file into the
\* session directory, so that shutil.rmtree leaves nothing of it whatever
\* runs in between: its steps are taken together
UploadNoValid ==
    /\ running
    /\ \E session_id \in DOMAIN uploads :
           /\ uploads[session_id].pc = "save"
           /\ ToSave(uploads[session_id].request.files) = <<>>
           /\ session_dirs' = Without(session_dirs, {session_id})
           /\ uploads' = Without(uploads, {session_id})
           /\ last' = Served("upload_files", uploads[session_id].request, session_id,
                             Response(400, "No valid files uploaded", <<>>))
    /\ UNCHANGED <<staging, runs, processed_data, issued, plots, clears, exit>>

\* process, line 153: _validate_directory.  Files only disappear from the
\* directory while process runs, so that what the three globs find one
\* after the other is what they find at one moment
UploadValidate ==
    /\ running
    /\ \E session_id \in DOMAIN uploads :
           /\ uploads[session_id].pc = "save"
           /\ uploads[session_id].saved = Len(ToSave(uploads[session_id].request.files))
           /\ uploads[session_id].saved > 0
           /\ \E checked \in {_validate_directory(DirOf(session_id))} :
                  uploads' = [uploads EXCEPT
                                 ![session_id] =
                                     IF checked.ok THEN [@ EXCEPT !.pc = "scan_id"]
                                     ELSE Raised(@, checked.err)]
    /\ UNCHANGED <<staging, runs, processed_data, session_dirs, issued, last, plots,
                   clears, exit>>

\* line 155: _extract_scan_id lists the directory
UploadScanId ==
    /\ running
    /\ \E session_id \in DOMAIN uploads :
           /\ uploads[session_id].pc = "scan_id"
           /\ IF ~DirOf(session_id).exists
              THEN uploads' = [uploads EXCEPT
                                  ![session_id] = Raised(@, "FileNotFoundError")]
              ELSE \E listing \in Perms(DirOf(session_id).files) :
                       uploads' = [uploads EXCEPT
                                      ![session_id].scan_id = _extract_scan_id(listing),
                                      ![session_id].pc = "positions"]
    /\ UNCHANGED <<staging, runs, processed_data, session_dirs, issued, last, plots,
                   clears, exit>>

\* lines 164-168: a summary parser lists the directory (lines 79, 116); when
\* the listing holds no file for it, it returns without opening any
UploadListSummaries ==
    /\ running
    /\ \E session_id \in DOMAIN uploads :
           /\ uploads[session_id].pc \in {"positions", "wells", "positions_again"}
           /\ IF ~DirOf(session_id).exists
              THEN uploads' = [uploads EXCEPT
                                  ![session_id] = Raised(@, "FileNotFoundError")]
              ELSE \E listing \in Perms(DirOf(session_id).files) :
                   \E pc \in {uploads[session_id].pc} :
                       uploads' =
                           [uploads EXCEPT
                               ![session_id] =
                                   IF ToRead(listing, ParserAt[pc]) # {}
                                   THEN [@ EXCEPT !.listing = listing,
                                                  !.pc = IF pc = "positions"
                                                         THEN "read_positions"
                                                         ELSE IF pc = "wells"
                                                         THEN "read_wells"
                                                         ELSE "read_positions_again"]
                                   ELSE AfterSummaries(@, pc,
                                            ParseSummaries(listing, ParserAt[pc],
                                                           Range(listing)))]
    /\ UNCHANGED <<staging, runs, processed_data, session_dirs, issued, last, plots,
                   clears, exit>>

\* lines 88, 125: pd.read_csv opens the listed files; one that was unlinked
\* since the listing raises FileNotFoundError.  The files read one after the
\* other are those that are there at one moment, as files only disappear
UploadReadSummaries ==
    /\ running
    /\ \E session_id \in DOMAIN uploads :
           /\ uploads[session_id].pc \in
                  {"read_positions", "read_wells", "read_positions_again"}
           /\ \E pc \in {uploads[session_id].pc} :
                  uploads' =
                      [uploads EXCEPT
                          ![session_id] =
                              AfterSummaries(@, pc,
                                  ParseSummaries(@.listing, ParserAt[pc],
                                                 DirOf(session_id).files))]
    /\ UNCHANGED <<staging, runs, processed_data, session_dirs, issued, last, plots,
                   clears, exit>>

\* lines 181 and 198: the directory is listed for the Excel file and, when
\* there is none, for the JSON file; without exactly one of them metadata
\* stays unassigned
UploadListMetadata ==
    /\ running
    /\ \E session_id \in DOMAIN uploads :
           /\ uploads[session_id].pc \in {"excel", "json"}
           /\ IF ~DirOf(session_id).exists
              THEN uploads' = [uploads EXCEPT
                                  ![session_id] = Raised(@, "FileNotFoundError")]
              ELSE \E listing \in Perms(DirOf(session_id).files) :
                   \E ext \in {IF uploads[session_id].pc = "excel"
                               THEN ".xlsx" ELSE ".json"} :
                   \E found \in {SelectSeq(listing, LAMBDA f : EndsWith(f, ext))} :
                       uploads' =
                           [uploads EXCEPT
                               ![session_id] =
                                   IF Len(found) = 1
                                   THEN [@ EXCEPT !.listing = found,
                                                  !.pc = IF ext = ".xlsx"
                                                         THEN "read_excel"
                                                         ELSE "read_json"]
                                   ELSE IF ext = ".xlsx" /\ Len(found) = 0
                                   THEN [@ EXCEPT !.pc = "json"]
                                   ELSE AfterMetadata(@, ResolveMetadata(listing))]
    /\ UNCHANGED <<staging, runs, processed_data, session_dirs, issued, last, plots,
                   clears, exit>>

\* lines 186 and 206: the metadata file is opened, FileNotFoundError when it
\* was unlinked since the listing, and process runs to its end
UploadReadMetadata ==
    /\ running
    /\ \E session_id \in DOMAIN uploads :
           /\ uploads[session_id].pc \in {"read_excel", "read_json"}
           /\ uploads' =
                  [uploads EXCEPT
                      ![session_id] =
                          IF @.listing[1] \notin DirOf(session_id).files
                          THEN Raised(@, "FileNotFoundError")
                          ELSE AfterMetadata(@, ResolveMetadata(@.listing))]
    /\ UNCHANGED <<staging, runs, processed_data, session_dirs, issued, last, plots,
                   clears, exit>>

\* line 95: processed_data[session_id] = results_agg
UploadStore ==
    /\ running
    /\ \E session_id \in DOMAIN uploads :
           /\ uploads[session_id].pc = "store"
           /\ processed_data' =
                  (session_id :> uploads[session_id].run.results_agg) @@ processed_data
           /\ uploads' = [uploads EXCEPT ![session_id].pc = "respond"]
    /\ UNCHANGED <<staging, runs, session_dirs, issued, last, plots, clears, exit>>

\* lines 97-134: the response is built; results_agg['Scan ID'].iloc[0] raises
\* IndexError on a table without rows
UploadRespond ==
    /\ running
    /\ \E session_id \in DOMAIN uploads :
           /\ uploads[session_id].pc = "respond"
           /\ IF uploads[session_id].run.results_agg.rows = {}
              THEN /\ uploads' = [uploads EXCEPT ![session_id].pc = "fail",
                                                 ![session_id].run.err = "IndexError"]
                   /\ UNCHANGED last
              ELSE /\ uploads' = Without(uploads, {session_id})
                   /\ last' = Served("upload_files", uploads[session_id].request,
                                     session_id,
                                     UploadResponse(session_id, uploads[session_id]))
    /\ UNCHANGED <<staging, runs, processed_data, session_dirs, issued, plots, clears,
                   exit>>

\* lines 136-138: the handler of an exception of process or of the lines
\* after it removes the session directory and answers.  As in
\* UploadNoValid the steps of shutil.rmtree are taken together
UploadFail ==
    /\ running
    /\ \E session_id \in DOMAIN uploads :
           /\ uploads[session_id].pc = "fail"
           /\ session_dirs' = Without(session_dirs, {session_id})
           /\ uploads' = Without(uploads, {session_id})
           /\ last' = Served("upload_files", uploads[session_id].request, session_id,
                             Response(500, "Processing error",
                                      <<uploads[session_id].run.err>>))
    /\ UNCHANGED <<staging, runs, processed_data, issued, plots, clears, exit>>

\* get_plot_data, lines 147-154, on a request: the session id is looked up
\* in the dict
GetPlotDataCheckFor(request) ==
    /\ running
    /\ IF request.session_id = "" \/ request.session_id \notin DOMAIN processed_data
       THEN /\ last' = Served("get_plot_data", request, request.session_id,
                              get_plot_data(request, processed_data))
            /\ UNCHANGED plots
       ELSE /\ Cardinality(plots) < MaxPlots
            /\ plots' = plots \cup {request}
            /\ UNCHANGED last
    /\ UNCHANGED <<staging, runs, processed_data, session_dirs, issued, uploads, clears,
                   exit>>

GetPlotDataCheck == \E request \in PlotRequests : GetPlotDataCheckFor(request)

\* lines 156-251: the table is read from the dict, KeyError when the entry
\* was deleted since the test, and the response is computed from it
GetPlotDataRead ==
    /\ running
    /\ \E request \in plots :
           /\ plots' = plots \ {request}
           /\ last' = Served("get_plot_data", request, request.session_id,
                             IF request.session_id \in DOMAIN processed_data
                             THEN get_plot_data(request, processed_data)
                             ELSE Response(500, "Error getting plot data",
                                           <<"KeyError">>))
    /\ UNCHANGED <<staging, runs, processed_data, session_dirs, issued, uploads, clears,
                   exit>>

\* a clear_session call in progress
Clearing(session_id, pc, r) == [session_id |-> session_id, pc |-> pc, rmtree |-> r]

\* the success answer of a clear_session call
Cleared(call) ==
    Served("clear_session", [session_id |-> call.session_id], call.session_id,
           Response(200, "", <<>>))

\* clear_session, lines 257-262, on a request [session_id]: without session
\* id the call answers at once, else the id is looked up in the dict
ClearSessionTestFor(session_id) ==
    /\ running
    /\ IF session_id = ""
       THEN /\ last' = Cleared(Clearing(session_id, "", NoTraversal))
            /\ UNCHANGED clears
       ELSE /\ BagCardinality(clears) < MaxClears
            /\ clears' = clears (+) SetToBag({Clearing(session_id,
                                        IF session_id \in DOMAIN processed_data
                                        THEN "del" ELSE "exists",
                                        NoTraversal)})
            /\ UNCHANGED last
    /\ UNCHANGED <<staging, runs, processed_data, session_dirs, issued, uploads, plots,
                   exit>>

ClearSessionTest == \E session_id \in RequestIds : ClearSessionTestFor(session_id)

\* line 263: del processed_data[session_id], KeyError when another call
\* deleted the entry since the test: the handler of line 272 answers with
\* the text of the KeyError and the call does not come to the directory
ClearSessionDelFor(call) ==
    /\ running
    /\ BagIn(call, clears)
    /\ call.pc = "del"
    /\ IF call.session_id \in DOMAIN processed_data
       THEN /\ processed_data' = Without(processed_data, {call.session_id})
            /\ clears' = (clears (-) SetToBag({call}))
                             (+) SetToBag({[call EXCEPT !.pc = "exists"]})
            /\ UNCHANGED last
       ELSE /\ last' = Served("clear_session", [session_id |-> call.session_id],
                              call.session_id,
                              Response(500, "", <<"KeyError", call.session_id>>))
            /\ clears' = clears (-) SetToBag({call})
            /\ UNCHANGED processed_data
    /\ UNCHANGED <<staging, runs, session_dirs, issued, uploads, plots, exit>>

ClearSessionDel == \E call \in BagToSet(clears) : ClearSessionDelFor(call)

\* lines 266-268: os.path.exists on what os.path.join(UPLOAD_FOLDER,
\* session_id) names and the start of shutil.rmtree.  On the upload folder
\* itself (".") rmtree lists the session directories.  On the directory of
\* one session, whose upload was answered, no thread puts a file into it,
\* so that rmtree leaves nothing of it whatever runs in between: its steps
\* are taken together
ClearSessionRmtreeFor(call) ==
    /\ running
    /\ BagIn(call, clears)
    /\ call.pc = "exists"
    /\ IF call.session_id = "." /\ DOMAIN session_dirs # {}
       THEN /\ clears' = (clears (-) SetToBag({call}))
                             (+) SetToBag({Clearing(".", "rmtree",
                                               [NoTraversal EXCEPT
                                                   !.todo = DOMAIN session_dirs])})
            /\ UNCHANGED <<session_dirs, last>>
       ELSE /\ session_dirs' =
                   Without(session_dirs, DirsAt(call.session_id, session_dirs))
            /\ clears' = clears (-) SetToBag({call})
            /\ last' = Cleared(call)
    /\ UNCHANGED <<staging, runs, processed_data, issued, uploads, plots, exit>>

ClearSessionRmtree == \E call \in BagToSet(clears) : ClearSessionRmtreeFor(call)

\* lines 268-271: one step of shutil.rmtree on the upload folder; after the
\* last one the call answers
ClearSessionUnlinkFor(call) ==
    /\ running
    /\ BagIn(call, clears)
    /\ call.pc = "rmtree"
    /\ \E step \in rmtree(call.rmtree, session_dirs) :
           /\ session_dirs' = step.dirs
           /\ IF Removed(step.rmtree)
              THEN /\ clears' = clears (-) SetToBag({call})
                   /\ last' = Cleared(call)
              ELSE /\ clears' = (clears (-) SetToBag({call}))
                                    (+) SetToBag({[call EXCEPT !.rmtree = step.rmtree]})
                   /\ UNCHANGED last
    /\ UNCHANGED <<staging, runs, processed_data, issued, uploads, plots, exit>>

ClearSessionUnlink == \E call \in BagToSet(clears) : ClearSessionUnlinkFor(call)

\* cleanup_temp_dir, registered with atexit, lines 28-29: when the
\* interpreter is about to exit, shutil.rmtree lists the upload folder; the
\* request threads go on
cleanup_temp_dir ==
    /\ exit.pc = "no"
    /\ exit' = [exit EXCEPT !.pc = "rmtree",
                            !.rmtree = [NoTraversal EXCEPT !.todo = DOMAIN session_dirs]]
    /\ UNCHANGED <<staging, runs, processed_data, session_dirs, issued, last, uploads,
                   plots, clears>>

\* line 29: one step of shutil.rmtree on the upload folder
CleanupUnlink ==
    /\ exit.pc = "rmtree"
    /\ ~Removed(exit.rmtree)
    /\ \E step \in rmtree(exit.rmtree, session_dirs) :
           /\ session_dirs' = step.dirs
           /\ exit' = [exit EXCEPT !.rmtree = step.rmtree]
    /\ UNCHANGED <<staging, runs, processed_data, issued, last, uploads, plots, clears>>

\* line 29, the last step of shutil.rmtree: the upload folder itself is
\* removed, which fails when a session directory is left or was made since
CleanupRmdir ==
    /\ exit.pc = "rmtree"
    /\ Removed(exit.rmtree)
    /\ exit' = [exit EXCEPT !.pc = "return",
                            !.folder = @ /\ DOMAIN session_dirs # {}]
    /\ UNCHANGED <<staging, runs, processed_data, session_dirs, issued, last, uploads,
                   plots, clears>>

\* cleanup_temp_dir has returned and the interpreter exits: what is left of
\* the upload folder stays, and no thread runs any more
Exit ==
    /\ exit.pc = "return"
    /\ exit' = [exit EXCEPT !.pc = "done"]
    /\ UNCHANGED <<staging, runs, processed_data, session_dirs, issued, last, uploads,
                   plots, clears>>

AppNext ==
    \/ UploadBegin
    \/ UploadMakedirs
    \/ UploadSave
    \/ UploadNoValid
    \/ UploadValidate
    \/ UploadScanId
    \/ UploadListSummaries
    \/ UploadReadSummaries
    \/ UploadListMetadata
    \/ UploadReadMetadata
    \/ UploadStore
    \/ UploadRespond
    \/ UploadFail
    \/ GetPlotDataCheck
    \/ GetPlotDataRead
    \/ ClearSessionTest
    \/ ClearSessionDel
    \/ ClearSessionRmtree
    \/ ClearSessionUnlink
    \/ cleanup_temp_dir
    \/ CleanupUnlink
    \/ CleanupRmdir
    \/ Exit

AppSpec == AppInit /\ [][AppNext]_vars

(***************************************************************************)
(* Properties.                                                             *)
(***************************************************************************)
Reached(run, stage) == \E i \in DOMAIN run.stages : run.stages[i] = stage

Runs == Range(runs)

FilesEnding(ext) == {f \in staging.files : f.ext = ext}

\* C5: process fails with the not-found error exactly when the staging
\* directory does not exist, and with the no-supported-files error exactly
\* when it exists and holds no file ending in .csv, .xlsx or .json; either
\* failure comes before the scan id is extracted, a file is parsed or the
\* metadata is resolved.
C5_ValidationFailures ==
    \A run \in Runs :
        /\ run.err = "FileNotFoundError" <=> ~staging.exists
        /\ run.err = "ValueError: No supported files found"
               <=> (staging.exists
                    /\ FilesEnding(".csv") \cup FilesEnding(".xlsx")
                       \cup FilesEnding(".json") = {})
        /\ run.err \in {"FileNotFoundError", "ValueError: No supported files found"}
               => /\ ~run.ok
                  /\ run.stages = <<"validate">>
                  /\ run.scan_id = NaN
                  /\ run.parser = "none"
                  /\ run.data = {}
                  /\ ~run.metadata.bound

\* a directory that holds files, none of them supported, was rejected
C5_Witness ==
    /\ staging.exists
    /\ staging.files # {}
    /\ \E run \in Runs : run.err = "ValueError: No supported files found"

\* the prefix all .csv names share, missing when there is none
SharedPrefix ==
    IF FilesEnding(".csv") # {}
       /\ \A f, g \in FilesEnding(".csv") : f.toks[1] = g.toks[1]
    THEN {<<(CHOOSE f \in FilesEnding(".csv") : TRUE).toks[1]>>}
    ELSE NaN

\* the directory with every .csv given the same prefix
SamePrefix(file) ==
    IF file.ext = ".csv" THEN [file EXCEPT !.toks[1] = "scan42"] ELSE file

\* C6: the scan id of a run is the prefix, up to the first "_", that all .csv
\* names share, and missing when they share none; a run with a missing scan
\* id succeeds exactly when the run on the same files under one common
\* prefix does; every row of both returned tables carries the run's scan id.
C6_ScanId ==
    \A run \in Runs :
        /\ Reached(run, "scan_id") => run.scan_id = SharedPrefix
        /\ (Reached(run, "scan_id") /\ run.scan_id = NaN)
               => \A listing \in Perms(staging.files) :
                      process([staging EXCEPT !.files = {SamePrefix(f) : f \in staging.files}],
                              [i \in DOMAIN listing |-> SamePrefix(listing[i])]).ok
                      = run.ok
        /\ run.ok
               => /\ \A k \in DOMAIN run.results.rows :
                         run.results.rows[k].ScanID = run.scan_id
                  /\ \A r \in run.results_agg : r.ScanID = run.scan_id

\* a run on .csv files of two prefixes returned its tables, with rows
C6_Witness ==
    \E run \in Runs :
        /\ run.ok
        /\ run.scan_id = NaN
        /\ \E f, g \in FilesEnding(".csv") : f.toks[1] # g.toks[1]
        /\ run.results.rows # <<>>
        /\ run.results_agg # {}

\* the values of attribute a that contribute to the aggregated row r of a run
Contributions(run, r, a) ==
    LET members == SelectSeq(run.results.rows,
                       LAMBDA x : /\ WellGroupOf(run.results, x) = r.WellGroup
                                  /\ x.Time = r.Time
                                  /\ x.channel = r.channel
                                  /\ x.attrs[a] # NaN)
    IN  [i \in DOMAIN members |-> CHOOSE v \in members[i].attrs[a] : TRUE]

\* q = n/d as rationals
IsRatio(q, n, d) == q # NaN /\ \A x \in q : x.num * d = n * x.den

\* C9: in every aggregated row, <attribute>_avg is the arithmetic mean of the
\* attribute over the row-level measurements of the row's (Well Group, Time,
\* channel) bucket, and <attribute>_std their sample deviation (checked on
\* its square: the squared distances to the mean, summed, over n - 1); a
\* bucket with one contributing measurement has _avg equal to its value and a
\* missing _std, and the run succeeds.
C9_MeanAndDeviation ==
    \A run \in Runs :
        run.ok =>
            \A r \in run.results_agg : \A a \in DOMAIN r.stats :
                LET xs == Contributions(run, r, a)
                    n == Len(xs)
                IN  /\ n = 0 => r.stats[a].avg = NaN /\ r.stats[a].std = NaN
                    /\ n >= 1 => IsRatio(r.stats[a].avg, Sum(xs), n)
                    /\ n = 1 => r.stats[a].avg = {[num |-> xs[1], den |-> 1]}
                                /\ r.stats[a].std = NaN
                    /\ n >= 2 =>
                           IsRatio(r.stats[a].std,
                                   Sum([i \in DOMAIN xs |->
                                           (n * xs[i] - Sum(xs)) * (n * xs[i] - Sum(xs))]),
                                   n * n * (n - 1))

\* one run aggregated a bucket of two wells with different values and a
\* bucket of one well
C9_Witness ==
    \E run \in Runs :
        /\ run.ok
        /\ \E r \in run.results_agg : \E a \in DOMAIN r.stats :
               /\ Len(Contributions(run, r, a)) = 2
               /\ r.stats[a].std \notin {NaN, {[num |-> 0, den |-> 1]}}
        /\ \E r \in run.results_agg : \E a \in DOMAIN r.stats :
               Len(Contributions(run, r, a)) = 1

\* the well has no row in the metadata table
NoEntry(metadata, well) ==
    LET w == ColumnIndex(metadata, <<"Well">>)
    IN  \A i \in DOMAIN metadata.rows : metadata.rows[i][w] # {well}

\* C10: the metadata join keeps every measurement: for each parsed table,
\* every (Time, Well) cell is a row of the joined table of its label, and the
\* rows of a well without metadata entry are kept, once, with a missing Well
\* Group and missing metadata columns.
C10_JoinKeepsRows ==
    \A run \in Runs :
        Reached(run, "coalesce") =>
            \A d \in run.data :
                \E m \in run.merged_dfs :
                    /\ m.channel = Head(d.key)
                    /\ m.attrCols = <<Tail(d.key)>>
                    /\ \A i \in DOMAIN d.val.rows : \A j \in 2..Len(d.val.cols) :
                           LET kept == {k \in DOMAIN m.rows :
                                           /\ m.rows[k].Well = d.val.cols[j]
                                           /\ m.rows[k].Time = d.val.rows[i][1]
                                           /\ m.rows[k].attrs[Tail(d.key)] = d.val.rows[i][j]}
                           IN  /\ kept # {}
                               /\ NoEntry(run.metadata.table, d.val.cols[j])
                                      => /\ Cardinality(kept) = 1
                                         /\ \A k \in kept : \A c \in DOMAIN m.rows[k].meta :
                                                m.rows[k].meta[c] = NaN

\* a joined table holds the row of a well the metadata does not list
C10_Witness ==
    \E run \in Runs :
        /\ Reached(run, "coalesce")
        /\ run.metadata.table.rows # <<>>
        /\ \E m \in run.merged_dfs : \E k \in DOMAIN m.rows :
               /\ NoEntry(run.metadata.table, m.rows[k].Well)
               /\ m.rows[k].attrs[m.attrCols[1]] # NaN
               /\ m.rows[k].meta # <<>>
               /\ \A c \in DOMAIN m.rows[k].meta : m.rows[k].meta[c] = NaN

\* some parsed table carries a channel and an attribute of the vocabularies
Recognized(run) ==
    \E d \in run.data :
        Head(d.key) \in Range(possible_channels) /\ Tail(d.key) \in possible_attributes

\* more than one .xlsx, or no .xlsx and not exactly one .json
MetadataUnresolvable ==
    \/ Cardinality(FilesEnding(".xlsx")) > 1
    \/ FilesEnding(".xlsx") = {} /\ Cardinality(FilesEnding(".json")) # 1

\* C1: when the metadata cannot be resolved (more than one .xlsx file, or no
\* .xlsx file and zero or several .json files), process does not fail: it
\* returns both tables, with a missing Well Group for every well (stated for
\* the runs that parsed a table of a known channel and attribute).
C1_UnresolvedMetadataNotFatal ==
    \A run \in Runs :
        (MetadataUnresolvable /\ Reached(run, "metadata") /\ Recognized(run))
            => /\ run.ok
               /\ run.results.rows # <<>>
               /\ \A k \in DOMAIN run.results.rows :
                      \A c \in DOMAIN run.results.rows[k].meta :
                          run.results.rows[k].meta[c] = NaN

PositionFiles == {f \in FilesEnding(".csv") : HasMarker(f, "positions")}

\* the column labels the first data row of a per-position export promotes
PromotedLabels(file) ==
    LET skip == IF file.df.cols[1] = <<"Scan">> THEN 1 ELSE 0
    IN  {file.df.rows[1][j] : j \in (skip + 2)..Len(file.df.cols)}

LayoutCheckFails ==
    \E f \in PositionFiles : \E label \in PromotedLabels(f) : ~ContainsPosition1(label)

\* C2: process takes its tables from the per-well parser exactly when the
\* per-position layout check fails; when every promoted label of every
\* summary_positions file contains "Position 1", the tables are the
\* per-position ones, one per file, their labels without " - Position 1"
\* (stated for the directories that hold a summary_positions file).
C2_ParserSelection ==
    \A run \in Runs :
        (PositionFiles # {} /\ Reached(run, "normalize"))
            => /\ run.parser = "well" <=> LayoutCheckFails
               /\ ~LayoutCheckFails
                      => /\ {d.key : d \in run.data}
                            = {LabelOf(f, "positions").val : f \in PositionFiles}
                         /\ \A d \in run.data : \A j \in 2..Len(d.val.cols) :
                                ~ContainsPosition1(d.val.cols[j])

\* C3: with no .xlsx file and exactly one JSON file, AnalysisWellGroup.json,
\* process resolves the metadata from it, one row (Well, Well Group) for each
\* well listed under a group, Well being the row letter followed by the
\* column plus one, and goes on to return both tables.
C3_JsonMetadata ==
    \A run \in Runs :
        (/\ FilesEnding(".xlsx") = {}
         /\ \E f \in FilesEnding(".json") :
                FilesEnding(".json") = {f} /\ f.toks = <<"AnalysisWellGroup">>
         /\ Reached(run, "metadata")
         /\ Recognized(run))
            => /\ run.metadata.bound
               /\ \A f \in FilesEnding(".json") :
                      Range(run.metadata.table.rows)
                      = UNION {{<<{_well_to_label(f.json[g].SelectedWells[w])},
                                  {f.json[g].GroupName}>> :
                                   w \in DOMAIN f.json[g].SelectedWells} :
                               g \in DOMAIN f.json}
               /\ run.ok

\* C4: a channel or attribute token outside the vocabularies never makes
\* process fail: with the metadata resolved, whatever mix of known and
\* unknown tokens the names of the parsed files carry, process returns both
\* tables (stated for the runs whose parsed files all carry a known
\* attribute, so that only the channel tokens vary).
C4_UnknownTokensNotFatal ==
    \A run \in Runs :
        (/\ run.metadata.bound
         /\ run.data # {}
         /\ \A d \in run.data : Tail(d.key) \in possible_attributes)
            => run.ok

\* C7: two runs on the same files return identical tables, the same rows with
\* the same cells, whatever the order of the directory listing.
C7_ListingOrderIrrelevant ==
    \A r1, r2 \in Runs :
        (r1.ok /\ r2.ok)
            => /\ Range(r1.results.rows) = Range(r2.results.rows)
               /\ Len(r1.results.rows) = Len(r2.results.rows)
               /\ r1.results_agg = r2.results_agg

\* C8: the aggregated table has exactly one row for each (Well Group, Time,
\* channel) combination of the row-level table, a missing Well Group
\* included, and no other row.
C8_OneRowPerBucket ==
    \A run \in Runs :
        run.ok =>
            LET keys == {<<WellGroupOf(run.results, run.results.rows[k]),
                           run.results.rows[k].Time,
                           run.results.rows[k].channel>> : k \in DOMAIN run.results.rows}
            IN  /\ {<<r.WellGroup, r.Time, r.channel>> : r \in run.results_agg} = keys
                /\ Cardinality(run.results_agg) = Cardinality(keys)

\* the Well Group the last metadata row of a well assigns, missing when the
\* metadata has no row for the well
LastMapping(metadata, well) ==
    LET w == ColumnIndex(metadata, <<"Well">>)
        g == ColumnIndex(metadata, <<"Well Group">>)
        entries == {i \in DOMAIN metadata.rows : metadata.rows[i][w] = {well}}
    IN  IF entries = {}
        THEN NaN
        ELSE metadata.rows[CHOOSE i \in entries : \A k \in entries : k <= i][g]

\* C11: in the row-level table a well belongs to at most one Well Group: the
\* table holds one row for each (Well, Time, channel), and when the metadata
\* maps the well more than once the row carries the group of the last
\* mapping.
C11_LastMappingWins ==
    \A run \in Runs :
        run.ok =>
            \A k \in DOMAIN run.results.rows :
                LET row == run.results.rows[k]
                IN  /\ WellGroupOf(run.results, row)
                           = LastMapping(run.metadata.table, row.Well)
                    /\ \A l \in DOMAIN run.results.rows :
                           (/\ run.results.rows[l].Well = row.Well
                            /\ run.results.rows[l].Time = row.Time
                            /\ run.results.rows[l].channel = row.channel)
                               => l = k

\* the parsed tables of one channel
TablesOf(run, channel) == {d \in run.data : Head(d.key) = channel}

\* the (Well, Time) pairs a parsed table measures
Measured(d) ==
    {<<d.val.cols[j], d.val.rows[i][1]>> :
        i \in DOMAIN d.val.rows, j \in 2..Len(d.val.cols)}

\* the value a parsed table holds for a (Well, Time) pair it measures
ValueAt(d, wt) ==
    LET i == CHOOSE x \in DOMAIN d.val.rows : d.val.rows[x][1] = wt[2]
        j == CHOOSE y \in 2..Len(d.val.cols) : d.val.cols[y] = wt[1]
    IN  d.val.rows[i][j]

\* C13: coalescing loses no measurement: for every channel of the
\* vocabulary and every (Well, Time) measured in any file of the channel,
\* the row-level table holds a row of that well, time and channel that
\* carries, for every file of the channel that measures the pair, the value
\* of its attribute.
C13_CoalesceKeepsMeasurements ==
    \A run \in Runs :
        run.ok =>
            \A c \in Range(possible_channels) :
                \A wt \in UNION {Measured(d) : d \in TablesOf(run, c)} :
                    \E k \in DOMAIN run.results.rows :
                        LET row == run.results.rows[k]
                        IN  /\ row.Well = wt[1]
                            /\ row.Time = wt[2]
                            /\ row.channel = c
                            /\ \A d \in TablesOf(run, c) :
                                   wt \in Measured(d)
                                       => row.attrs[Tail(d.key)] = ValueAt(d, wt)

\* the .xlsx files that are not of the template layout
PlateGrids == {f \in FilesEnding(".xlsx") : f.df.cols[1] # <<"Well">>}

\* C14: every validation rule of the plate-grid parsing is non-fatal: with
\* one .xlsx file, of the plate-grid layout, whatever its second column
\* holds, whatever the headers of its plate columns and whatever the name of
\* its first column, the metadata is resolved to a Well -> Well Group table
\* whose wells are the row letters of the second column followed by the
\* headers of the plate columns.
C14_PlateGridValidationNotFatal ==
    \A run \in Runs :
        (/\ Reached(run, "metadata")
         /\ Cardinality(FilesEnding(".xlsx")) = 1
         /\ PlateGrids # {})
            => \A f \in PlateGrids :
                   /\ run.metadata.bound
                   /\ run.metadata.kind = "disco"
                   /\ run.metadata.table.cols = << <<"Well">>, <<"Well Group">> >>
                   /\ \A i \in DOMAIN f.df.rows : \A j \in 3..Len(f.df.cols) :
                          \E m \in DOMAIN run.metadata.table.rows :
                              run.metadata.table.rows[m][1]
                                  = {f.df.rows[i][2] \o f.df.cols[j]}

\* the session has neither a cached table nor a session directory
Gone(session_id) ==
    session_id \notin DOMAIN processed_data /\ session_id \notin DOMAIN session_dirs

\* when clear_session on a session id has answered success, the session is
\* gone
ClearedIsGone ==
    (last.handler = "clear_session" /\ last.status = 200 /\ last.session_id # "")
        => Gone(last.session_id)

\* a get_plot_data call arriving for a session without cached table answers
\* the invalid-session error
UncachedIsInvalid ==
    \A request \in PlotRequests :
        (/\ GetPlotDataCheckFor(request)
         /\ request.session_id \notin DOMAIN processed_data)
            => /\ last'.handler = "get_plot_data"
               /\ last'.request = request
               /\ last'.status = 400
               /\ last'.error = "Invalid session or data not found"

\* a session that is gone stays gone once its upload was answered
GoneStaysGone ==
    \A session_id \in Finished : Gone(session_id) => Gone(session_id)'

\* the steps that a clear_session call takes on the directories, for a
\* session that has neither a cached table nor a directory, change neither
\* the cache nor any directory, and the call answers success
ClearUnknownChangesNothing ==
    \A call \in BagToSet(clears) :
        (/\ call.session_id \notin DOMAIN processed_data \cup DOMAIN session_dirs
         /\ ClearSessionRmtreeFor(call) \/ ClearSessionUnlinkFor(call))
            => /\ processed_data' = processed_data
               /\ session_dirs' = session_dirs
               /\ BagCardinality(clears') < BagCardinality(clears)
                      => last' = Cleared(call)

\* C12: after clear_session for a session completes, the session has neither
\* a cached table nor a staging directory, and stays so, so that every later
\* get_plot_data for it answers with the invalid-session error; clear_session
\* on an unknown or already cleared session succeeds without changing the
\* cache or any session's directory.
C12_ClearSession ==
    /\ []ClearedIsGone
    /\ [][GoneStaysGone /\ UncachedIsInvalid /\ ClearUnknownChangesNothing]_vars

\* C15: an upload that ends with an error response leaves neither a cached
\* table nor a staging directory for the session id it drew, and a table is
\* cached for a session id only by the upload that drew it, after its call
\* of process returned.
C15_FailedUploadLeavesNothing ==
    /\ []((last.handler = "upload_files" /\ last.status # 200 /\ last.session_id # "")
             => Gone(last.session_id))
    /\ [][\A s \in DOMAIN processed_data' \ DOMAIN processed_data :
              /\ s \in DOMAIN uploads
              /\ uploads[s].pc = "store"
              /\ uploads[s].run.ok]_vars

====
